---- MODULE Spec2Model ----
(***************************************************************************)
(* tl::function_ref<R(Args...)> (src/function_ref.hpp), instantiated for   *)
(* the signature int(S&, int).                                             *)
(*                                                                         *)
(* Two instances, A and B, live next to four caller-owned callables:       *)
(*   fn   a plain function            int inc(S&, int x) { return x + 1; } *)
(*   fp   a function-pointer object   holding &inc or &dbl (x * 2)         *)
(*   clo  a capturing closure         [n](S&, int x) mutable               *)
(*                                      { int r = x + n; n = (n+1) % K;    *)
(*                                        return r; }                      *)
(*   mp   a pointer-to-member object  &S::add, paired with the receiver    *)
(*                                    that is the call's first argument:   *)
(*                                    v = (v + x) % K; return v;           *)
(* An address is the name of the object that lives there; the address of   *)
(* an instance is its own name.  A trampoline (the captureless lambda the  *)
(* binding code converts to a function pointer) is named by the type F it  *)
(* casts the erased pointer back to.                                       *)
(***************************************************************************)
EXTENDS Integers, Sequences, FiniteSets, TLC

VARIABLES
    obj_,       \* obj_[r]: the erased target address of instance r
    callback_,  \* callback_[r]: the trampoline of instance r
    fpVal,      \* the function the pointer object fp holds
    cloN,       \* the closure's captured counter n
    recvV,      \* the receiver's field v
    alive,      \* the caller-owned callables that have not been destroyed
    bound,      \* history: the callable r is bound to since its last F&&
                \* binding, and whether the constructor or the assignment
                \* bound it; NoBind once any other operation has written r
    last,       \* history: the operation just performed, what it produced
                \* and, for an assignment, the target it overwrote
    err,        \* "none", or the undefined behaviour the program ran into
    cmp,        \* the null comparison in progress (a call stack)
    pc,         \* per thread: where it is inside its current operation
    loc,        \* per thread: the operation's locals
    wrote       \* history: a store to the shared instance has happened

vars == <<obj_, callback_, fpVal, cloN, recvV, alive, bound, last, err, cmp,
          pc, loc, wrote>>

----------------------------------------------------------------------------
(* Bounds of the model. *)

\* the closure's counter and the receiver's field count modulo CountMod
CountMod == 2
\* the int argument of a call ranges over 0..MaxArg
MaxArg == 1

----------------------------------------------------------------------------
(* The objects. *)

Refs == {"A", "B"}
Callables == {"fn", "fp", "clo", "mp"}
Destroyable == {"clo"}
NULL == "null"
Xs == 0..MaxArg

\* the decayed type of the object at an address
TypeOf(a) ==
    CASE a = "fn"  -> "Function"
      [] a = "fp"  -> "FunctionPointer"
      [] a = "clo" -> "Closure"
      [] a = "mp"  -> "MemberPointer"
      [] a = "bad" -> "WrongResult"
      [] a \in Refs -> "FunctionRef"

\* detail::is_invocable_r<R, F&&, Args...>: invoke_result_t<F, Args...> is R.
\* The candidate "bad" returns long, so its result type is not int.
is_invocable_r(F) == F \in {"Function", "FunctionPointer", "Closure",
                            "MemberPointer", "FunctionRef"}

\* the constraint of the converting constructor
CtorEnabled(F) == F # "FunctionRef" /\ is_invocable_r(F)

\* the constraint of the converting assignment
AssignEnabled(F) == is_invocable_r(F)

----------------------------------------------------------------------------
(* Calls. *)

\* the caller-owned state a call reads and writes
Env == [fp |-> fpVal, n |-> cloN, v |-> recvV, alive |-> alive]

NoOut == [k |-> "-", at |-> "-", val |-> 0, n |-> 0, v |-> 0]

\* a call that returned val and left the caller-owned state e
Ok(val, e) == [k |-> "ok", at |-> "-", val |-> val, n |-> e.n, v |-> e.v]

\* a call that ran into undefined behaviour of the given kind at address at
UB(kind, at, e) == [k |-> kind, at |-> at, val |-> 0, n |-> e.n, v |-> e.v]

inc(x) == x + 1
dbl(x) == x * 2

\* std::is_member_pointer<decay_t<Fn>>
is_member_pointer(F) == F = "MemberPointer"

\* detail::invoke, member-pointer overload: std::mem_fn(f)(s, x) is s.add(x)
invoke_mem_fn(a, x, e) ==
    LET v2 == (e.v + x) % CountMod
    IN  Ok(v2, [e EXCEPT !.v = v2])

\* mutant: the callable is taken by value, so the closure that runs is a copy
\* and the caller's closure keeps its counter
invoke_plain_by_value(a, x, e) ==
    CASE a = "fn"  -> Ok(inc(x), e)
      [] a = "fp"  -> Ok(IF e.fp = "inc" THEN inc(x) ELSE dbl(x), e)
      [] a = "clo" -> Ok(x + e.n, e)

\* detail::invoke, plain overload: f(s, x)
invoke_plain(a, x, e) ==
    CASE a = "fn"  -> Ok(inc(x), e)
      [] a = "fp"  -> Ok(IF e.fp = "inc" THEN inc(x) ELSE dbl(x), e)
      [] a = "clo" -> Ok(x + e.n, [e EXCEPT !.n = (e.n + 1) % CountMod])

\* detail::invoke: exactly one overload takes part, chosen by the type
invoke(F, a, x, e) ==
    IF is_member_pointer(F) THEN invoke_mem_fn(a, x, e)
    ELSE invoke_plain(a, x, e)

RECURSIVE call(_, _, _, _, _, _)
\* The trampoline for type F applied to the erased pointer p: cast p back to
\* F* and invoke the object there.  A same-signature function_ref at p is
\* invoked through its own operator(); seen holds the instances whose
\* operator() is already on the stack, so meeting one again is a recursion
\* that never ends.
trampoline(F, p, O, C, x, e, seen) ==
    IF p = NULL THEN UB("null_deref", "-", e)
    ELSE IF TypeOf(p) # F THEN UB("type_confusion", p, e)
    ELSE IF p \in Callables /\ p \notin e.alive THEN UB("dangling", p, e)
    ELSE IF F = "FunctionRef"
         THEN IF p \in seen THEN UB("recursion", "-", e)
              ELSE call(O, C, p, x, e, seen \cup {p})
    ELSE invoke(F, p, x, e)

\* mutant: operator() tests the trampoline and returns a default value
call_checked(O, C, r, x, e, seen) ==
    IF C[r] = NULL THEN Ok(0, e)
    ELSE trampoline(C[r], O[r], O, C, x, e, seen)

\* operator(): callback_(obj_, args...), with no check of either field
call(O, C, r, x, e, seen) ==
    IF C[r] = NULL THEN UB("null_call", r, e)
    ELSE trampoline(C[r], O[r], O, C, x, e, seen)

\* mutant: the comparison of operator bool is inverted
bool_inverted(O, r) == O[r] = NULL

\* operator bool
bool(O, r) == O[r] # NULL

\* the callable c invoked by the caller itself, with no function_ref between
DirectCall(c, O, C, x, e) ==
    IF c \in Refs THEN call(O, C, c, x, e, {c})
    ELSE IF c \notin e.alive THEN UB("dangling", c, e)
    ELSE CASE c = "fn"  -> Ok(x + 1, e)
           [] c = "fp"  -> Ok(IF e.fp = "inc" THEN x + 1 ELSE 2 * x, e)
           [] c = "clo" -> Ok(x + e.n, [e EXCEPT !.n = (e.n + 1) % CountMod])
           [] c = "mp"  -> Ok((e.v + x) % CountMod,
                              [e EXCEPT !.v = (e.v + x) % CountMod])

----------------------------------------------------------------------------
(* The sequential program: one thread using A and B. *)

NoBind == [f |-> "none", by |-> "-"]

Rec(op, r, s) ==
    [op |-> op, r |-> r, s |-> s, x |-> 0, out |-> NoOut, ret |-> "-",
     b |-> FALSE, old |-> "-"]

Threads == {"t1", "t2"}

\* a thread's locals: the two fields it has loaded, the source of the
\* assignment or the temporary of the swap it is in
NoLoc == [o |-> NULL, c |-> NULL, src |-> "-", tmp |-> NULL]

concIdle ==
    /\ cmp = <<>>
    /\ pc = [t \in Threads |-> "idle"]
    /\ loc = [t \in Threads |-> NoLoc]
    /\ wrote = FALSE

Init ==
    /\ obj_ = [r \in Refs |-> NULL]
    /\ callback_ = [r \in Refs |-> NULL]
    /\ fpVal = "inc"
    /\ cloN = 0
    /\ recvV = 0
    /\ alive = Callables
    /\ bound = [r \in Refs |-> NoBind]
    /\ last = Rec("init", "-", "-")
    /\ err = "none"
    /\ concIdle

\* function_ref() = default, with the members' default initialisers
DefaultConstruct(i) ==
    /\ err = "none"
    /\ obj_' = [obj_ EXCEPT ![i] = NULL]
    /\ callback_' = [callback_ EXCEPT ![i] = NULL]
    /\ bound' = [bound EXCEPT ![i] = NoBind]
    /\ last' = Rec("default_ctor", i, "-")
    /\ UNCHANGED <<fpVal, cloN, recvV, alive, err, cmp, pc, loc, wrote>>

\* function_ref(std::nullptr_t) : function_ref()
NullConstruct(i) ==
    /\ err = "none"
    /\ obj_' = [obj_ EXCEPT ![i] = NULL]
    /\ callback_' = [callback_ EXCEPT ![i] = NULL]
    /\ bound' = [bound EXCEPT ![i] = NoBind]
    /\ last' = Rec("null_ctor", i, "-")
    /\ UNCHANGED <<fpVal, cloN, recvV, alive, err, cmp, pc, loc, wrote>>

\* function_ref(const function_ref &) = default.  A function_ref source,
\* const or not, lvalue or rvalue, never selects the converting constructor:
\* CtorEnabled excludes decay_t<F> = function_ref.
CopyConstruct(i, j) ==
    /\ err = "none"
    /\ i # j
    /\ ~CtorEnabled(TypeOf(j))
    /\ obj_' = [obj_ EXCEPT ![i] = obj_[j]]
    /\ callback_' = [callback_ EXCEPT ![i] = callback_[j]]
    /\ bound' = [bound EXCEPT ![i] = NoBind]
    /\ last' = Rec("copy_ctor", i, j)
    /\ UNCHANGED <<fpVal, cloN, recvV, alive, err, cmp, pc, loc, wrote>>

\* function_ref(F &&f): obj_ is f's address, callback_ the trampoline for F
ConstructFrom(i, c) ==
    /\ err = "none"
    /\ c \in alive
    /\ CtorEnabled(TypeOf(c))
    /\ obj_' = [obj_ EXCEPT ![i] = c]
    /\ callback_' = [callback_ EXCEPT ![i] = TypeOf(c)]
    /\ bound' = [bound EXCEPT ![i] = [f |-> c, by |-> "ctor"]]
    /\ last' = Rec("ctor", i, c)
    /\ UNCHANGED <<fpVal, cloN, recvV, alive, err, cmp, pc, loc, wrote>>

\* The end of an assignment operator: control reaches the closing brace of
\* a function returning function_ref& with no return statement.  The build
\* may hand back the instance, hand back an indeterminate reference, or
\* leave the function without returning to the caller at all.
FlowOffEnd(op, i, s) ==
    \E o \in {"self", "garbage", "trap"} :
        /\ last' = [Rec(op, i, s) EXCEPT
                      !.old = obj_[i],
                      !.ret = CASE o = "self" -> i
                                [] o = "garbage" -> "indeterminate"
                                [] o = "trap" -> "none"]
        /\ err' = IF o = "trap" THEN "no_return" ELSE "none"

\* operator=(const function_ref &rhs): selected for a const lvalue source
CopyAssign(i, j) ==
    /\ err = "none"
    /\ obj_' = [obj_ EXCEPT ![i] = obj_[j]]
    /\ callback_' = [callback_ EXCEPT ![i] = callback_[j]]
    /\ bound' = [bound EXCEPT ![i] = NoBind]
    /\ FlowOffEnd("copy_assign", i, j)
    /\ UNCHANGED <<fpVal, cloN, recvV, alive, cmp, pc, loc, wrote>>

\* mutant: the assignment of nullptr clears the target only
AssignNull_target_only(i) ==
    /\ err = "none"
    /\ obj_' = [obj_ EXCEPT ![i] = NULL]
    /\ bound' = [bound EXCEPT ![i] = NoBind]
    /\ FlowOffEnd("null_assign", i, "-")
    /\ UNCHANGED <<callback_, fpVal, cloN, recvV, alive, cmp, pc, loc, wrote>>

\* operator=(std::nullptr_t)
AssignNull(i) ==
    /\ err = "none"
    /\ obj_' = [obj_ EXCEPT ![i] = NULL]
    /\ callback_' = [callback_ EXCEPT ![i] = NULL]
    /\ bound' = [bound EXCEPT ![i] = NoBind]
    /\ FlowOffEnd("null_assign", i, "-")
    /\ UNCHANGED <<fpVal, cloN, recvV, alive, cmp, pc, loc, wrote>>

\* mutant: the converting assignment stores the address and keeps the old
\* trampoline
AssignFrom_keeps_callback(i, c) ==
    /\ err = "none"
    /\ c \in Refs \/ c \in alive \ {"fn"}
    /\ AssignEnabled(TypeOf(c))
    /\ obj_' = [obj_ EXCEPT ![i] = c]
    /\ bound' = [bound EXCEPT ![i] = [f |-> c, by |-> "assign"]]
    /\ FlowOffEnd(IF c \in Refs THEN "ref_assign" ELSE "assign", i, c)
    /\ UNCHANGED <<callback_, fpVal, cloN, recvV, alive, cmp, pc, loc, wrote>>

\* operator=(F &&f), F deduced from a non-const rvalue source (std::move(c)):
\* the body forms F*, so F is never a reference type.  The constraint does
\* not exclude function_ref, and for a non-const rvalue function_ref this
\* overload is a better match than operator=(const function_ref &).
AssignFrom(i, c) ==
    /\ err = "none"
    /\ c \in Refs \/ c \in alive \ {"fn"}
    /\ AssignEnabled(TypeOf(c))
    /\ obj_' = [obj_ EXCEPT ![i] = c]
    /\ callback_' = [callback_ EXCEPT ![i] = TypeOf(c)]
    /\ bound' = [bound EXCEPT ![i] = [f |-> c, by |-> "assign"]]
    /\ FlowOffEnd(IF c \in Refs THEN "ref_assign" ELSE "assign", i, c)
    /\ UNCHANGED <<fpVal, cloN, recvV, alive, cmp, pc, loc, wrote>>

\* the two std::swap calls of the member swap
swapFields(i, j) ==
    /\ obj_' = [obj_ EXCEPT ![i] = obj_[j], ![j] = obj_[i]]
    /\ callback_' = [callback_ EXCEPT ![i] = callback_[j], ![j] = callback_[i]]

\* function_ref::swap(function_ref &rhs)
Swap(i, j) ==
    /\ err = "none"
    /\ swapFields(i, j)
    /\ bound' = [bound EXCEPT ![i] = NoBind, ![j] = NoBind]
    /\ last' = Rec("swap", i, j)
    /\ UNCHANGED <<fpVal, cloN, recvV, alive, err, cmp, pc, loc, wrote>>

\* swap(lhs, rhs): lhs.swap(rhs)
FreeSwap(i, j) ==
    /\ err = "none"
    /\ swapFields(i, j)
    /\ bound' = [bound EXCEPT ![i] = NoBind, ![j] = NoBind]
    /\ last' = Rec("free_swap", i, j)
    /\ UNCHANGED <<fpVal, cloN, recvV, alive, err, cmp, pc, loc, wrote>>

\* explicit operator bool() const
BoolConv(i) ==
    /\ err = "none"
    /\ last' = [Rec("bool", i, "-") EXCEPT !.b = bool(obj_, i)]
    /\ UNCHANGED <<obj_, callback_, fpVal, cloN, recvV, alive, bound, err,
                   cmp, pc, loc, wrote>>

\* R operator()(Args... args) const
Invoke(i, x) ==
    /\ err = "none"
    /\ LET out == call(obj_, callback_, i, x, Env, {i})
       IN  /\ last' = [Rec("invoke", i, "-") EXCEPT !.x = x, !.out = out]
           /\ cloN' = out.n
           /\ recvV' = out.v
           /\ err' = IF out.k = "ok" THEN "none" ELSE out.k
    /\ UNCHANGED <<obj_, callback_, fpVal, alive, bound, cmp, pc, loc, wrote>>

\* the caller changes a bound object behind the references' back: repoints
\* fp, calls the closure itself, writes the receiver's field
Mutate(c) ==
    /\ err = "none"
    /\ c \in alive \/ c = "recv"
    /\ c \in {"fp", "clo", "recv"}
    /\ fpVal' = IF c = "fp" THEN (IF fpVal = "inc" THEN "dbl" ELSE "inc")
                ELSE fpVal
    /\ cloN' = IF c = "clo" THEN (cloN + 1) % CountMod ELSE cloN
    /\ recvV' = IF c = "recv" THEN (recvV + 1) % CountMod ELSE recvV
    /\ last' = Rec("mutate", "-", c)
    /\ UNCHANGED <<obj_, callback_, alive, bound, err, cmp, pc, loc, wrote>>

\* the caller ends the lifetime of one of its callables
Destroy(c) ==
    /\ err = "none"
    /\ c \in alive
    /\ alive' = alive \ {c}
    /\ last' = Rec("destroy", "-", c)
    /\ UNCHANGED <<obj_, callback_, fpVal, cloN, recvV, bound, err, cmp, pc,
                   loc, wrote>>

Next ==
    \/ \E i \in Refs : DefaultConstruct(i)
    \/ \E i \in Refs : NullConstruct(i)
    \/ \E i, j \in Refs : CopyConstruct(i, j)
    \/ \E i \in Refs, c \in Callables \cup {"bad"} : ConstructFrom(i, c)
    \/ \E i, j \in Refs : CopyAssign(i, j)
    \/ \E i \in Refs : AssignNull(i)
    \/ \E i \in Refs, c \in Callables \cup Refs \cup {"bad"} : AssignFrom(i, c)
    \/ \E i, j \in Refs : Swap(i, j)
    \/ \E i, j \in Refs : FreeSwap(i, j)
    \/ \E i \in Refs : BoolConv(i)
    \/ \E i \in Refs, x \in Xs : Invoke(i, x)
    \/ \E c \in {"fp", "clo", "recv"} : Mutate(c)
    \/ \E c \in Destroyable : Destroy(c)

Spec == Init /\ [][Next]_vars

----------------------------------------------------------------------------
(* Claims about the sequential program. *)

BindOps == {"ctor", "assign", "ref_assign"}
AssignOps == {"copy_assign", "null_assign", "assign", "ref_assign"}
SwapOps == {"swap", "free_swap"}

\* C1: a reference bound to f, invoked with any argument, yields the result
\* and the effects on the caller-owned state that invoking f directly at
\* that moment yields; f's current state is read through the stored address,
\* so a mutation made between two invocations shows in the second.
C1_InvokeEqualsDirectCall ==
    /\ [](\A r \in Refs, x \in Xs :
            bound[r] # NoBind =>
                call(obj_, callback_, r, x, Env, {r})
                    = DirectCall(bound[r].f, obj_, callback_, x, Env))
    /\ [][(last'.op = "invoke" /\ bound[last'.r] # NoBind) =>
            /\ last'.out = DirectCall(bound[last'.r].f, obj_, callback_,
                                      last'.x, Env)
            /\ cloN' = last'.out.n
            /\ recvV' = last'.out.v]_vars

\* C1 witness: the closure was bound while its counter was 0, the counter
\* was changed, and the invocation that followed returned x + 1
C1_Witness ==
    /\ last.op = "invoke"
    /\ bound[last.r] = [f |-> "clo", by |-> "ctor"]
    /\ last.out.k = "ok"
    /\ last.out.val = last.x + 1

\* C2: in every reachable state each instance has a null target exactly
\* when it has a null trampoline.
C2_EmptyIsAtomic ==
    \A r \in Refs : (obj_[r] = NULL) <=> (callback_[r] = NULL)

\* C2 witness: a swap has just left one instance empty and the other bound
C2_Witness ==
    /\ last.op \in SwapOps
    /\ obj_[last.r] = NULL
    /\ obj_[last.s] # NULL

\* C3 (as claimed): copy construction and copy assignment from a reference
\* b, const or not, copy both of b's fields, and the destination's target is
\* never the address of b itself.
C3_CopyCopiesBothFields ==
    [][(last'.op \in {"copy_ctor", "copy_assign", "ref_assign"}) =>
            /\ obj_'[last'.r] = obj_[last'.s]
            /\ callback_'[last'.r] = callback_[last'.s]
            /\ (last'.r # last'.s => obj_'[last'.r] # last'.s)]_vars

Behaviour(out) == [k |-> out.k, val |-> out.val, n |-> out.n, v |-> out.v]

\* C6 (as claimed): member swap and free swap exchange the two pairs, touch
\* no callable, make each instance behave as the other did before, and a
\* second swap restores both.
C6_SwapExchangesBehaviour ==
    [][(last'.op \in SwapOps) =>
        LET i == last'.r
            j == last'.s
        IN  /\ obj_'[i] = obj_[j] /\ callback_'[i] = callback_[j]
            /\ obj_'[j] = obj_[i] /\ callback_'[j] = callback_[i]
            /\ UNCHANGED <<fpVal, cloN, recvV, alive, err>>
            /\ \A x \in Xs :
                /\ Behaviour(call(obj_', callback_', i, x, Env, {i}))
                      = Behaviour(call(obj_, callback_, j, x, Env, {j}))
                /\ Behaviour(call(obj_', callback_', j, x, Env, {j}))
                      = Behaviour(call(obj_, callback_, i, x, Env, {i}))
            /\ [obj_' EXCEPT ![i] = obj_'[j], ![j] = obj_'[i]] = obj_
            /\ [callback_' EXCEPT ![i] = callback_'[j], ![j] = callback_'[i]]
                  = callback_]_vars

\* C7: boolean conversion is true exactly when the target is not null; it
\* is false after default construction, construction from nullptr and
\* assignment of nullptr, true after construction or assignment from a
\* callable, and it writes neither field.
C7_BoolIsTargetNotNull ==
    /\ [](last.op = "bool" => (last.b <=> obj_[last.r] # NULL))
    /\ [](last.op \in {"default_ctor", "null_ctor", "null_assign"} =>
            /\ obj_[last.r] = NULL
            /\ ~bool(obj_, last.r))
    /\ [](last.op \in BindOps => obj_[last.r] # NULL /\ bool(obj_, last.r))
    /\ [][last'.op = "bool" =>
            obj_' = obj_ /\ callback_' = callback_]_vars

\* C7 witness: an instance last written by assignment from a callable was
\* converted and the conversion gave true
C7_Witness ==
    /\ last.op = "bool"
    /\ last.b = TRUE
    /\ bound[last.r].by = "assign"

C10_AssignReturnsSelf ==
    last.op \in AssignOps => (last.ret = last.r /\ err # "no_return")

----------------------------------------------------------------------------
(* The null comparisons, run by the one thread of the sequential program. *)
(* cmp is the stack of comparison operators that have been entered and    *)
(* have not returned; last.r is the instance compared.                    *)

\* the depth at which the stack of the running thread is exhausted
MaxDepth == 3

CmpForms == {"eq_ref_null", "eq_null_ref", "ne_ref_null", "ne_null_ref"}

\* The operator that the body of each comparison calls: `f == nullptr` and
\* `f != nullptr` with f a const function_ref& resolve to the (function_ref,
\* nullptr_t) overloads, which are the operators being defined.
Callee(form) ==
    CASE form = "eq_ref_null" -> "eq_ref_null"
      [] form = "eq_null_ref" -> "eq_ref_null"
      [] form = "ne_ref_null" -> "ne_ref_null"
      [] form = "ne_null_ref" -> "ne_ref_null"

\* the caller writes r == nullptr, nullptr == r, r != nullptr or nullptr != r
CmpCall(r, form) ==
    /\ err = "none"
    /\ cmp = <<>>
    /\ cmp' = <<form>>
    /\ last' = Rec("cmp_call", r, form)
    /\ UNCHANGED <<obj_, callback_, fpVal, cloN, recvV, alive, bound, err,
                   pc, loc, wrote>>

\* the body of the operator on top of the stack evaluates its return
\* expression, which is a call of Callee
CmpBody ==
    /\ err = "none"
    /\ cmp # <<>>
    /\ Len(cmp) < MaxDepth
    /\ cmp' = Append(cmp, Callee(cmp[Len(cmp)]))
    /\ UNCHANGED <<obj_, callback_, fpVal, cloN, recvV, alive, bound, last,
                   err, pc, loc, wrote>>

\* the same call compiled as a jump (an optimised build): the callee's frame
\* replaces the caller's, and the loop never leaves the operator
CmpTailCall ==
    /\ err = "none"
    /\ cmp # <<>>
    /\ cmp' = [cmp EXCEPT ![Len(cmp)] = Callee(cmp[Len(cmp)])]
    /\ UNCHANGED <<obj_, callback_, fpVal, cloN, recvV, alive, bound, last,
                   err, pc, loc, wrote>>

\* the recursion has used up the stack (an unoptimised build)
CmpExhaust ==
    /\ err = "none"
    /\ Len(cmp) = MaxDepth
    /\ err' = "stack_overflow"
    /\ last' = [last EXCEPT !.op = "cmp_overflow"]
    /\ UNCHANGED <<obj_, callback_, fpVal, cloN, recvV, alive, bound, cmp,
                   pc, loc, wrote>>

CmpNext ==
    \/ cmp = <<>> /\ \E i \in Refs : DefaultConstruct(i)
    \/ cmp = <<>> /\ \E i \in Refs, c \in Callables : ConstructFrom(i, c)
    \/ cmp = <<>> /\ \E i, j \in Refs : Swap(i, j)
    \/ \E r \in Refs, form \in CmpForms : CmpCall(r, form)
    \/ CmpBody
    \/ CmpTailCall
    \/ CmpExhaust

SpecCmp == Init /\ [][CmpNext]_vars

\* C4 (as claimed): each of the four comparisons with nullptr terminates
\* and reports whether the instance is empty: == gives true exactly when the
\* target is null, != exactly when it is not.
C4_NullCompareReportsEmpty ==
    /\ err # "stack_overflow"
    /\ last.op = "cmp_returned" =>
          (last.b <=> IF last.s \in {"eq_ref_null", "eq_null_ref"}
                      THEN obj_[last.r] = NULL
                      ELSE obj_[last.r] # NULL)

----------------------------------------------------------------------------
(* Two threads using instance A with no synchronisation: t1 assigns to it, *)
(* swaps it with B, invokes it and converts it; t2 invokes and converts   *)
(* it.  A statement that touches both fields is one step per field.       *)

Shared == "A"
Other == "B"

\* a pair of fields that some binding operation stores together
Consistent(o, c) == IF o = NULL THEN c = NULL ELSE c = TypeOf(o)

InitConc ==
    /\ \E a, b \in {NULL, "fn", "clo"} :
        /\ obj_ = [r \in Refs |-> IF r = Shared THEN a ELSE b]
        /\ callback_ = [r \in Refs |->
                          IF obj_[r] = NULL THEN NULL ELSE TypeOf(obj_[r])]
    /\ fpVal = "inc"
    /\ cloN = 0
    /\ recvV = 0
    /\ alive = Callables
    /\ bound = [r \in Refs |-> NoBind]
    /\ last = Rec("init", "-", "-")
    /\ err = "none"
    /\ concIdle

\* the one thread that also writes; the other only reads
Writers == {"t1"}

AssignSources == {"null", "copy", "clo"}

\* the target and the trampoline an assignment from src stores
srcObj(src) ==
    CASE src = "null" -> NULL
      [] src = "copy" -> obj_[Other]
      [] OTHER -> src
srcCallback(src) ==
    CASE src = "null" -> NULL
      [] src = "copy" -> callback_[Other]
      [] OTHER -> TypeOf(src)
srcOp(src) ==
    CASE src = "null" -> "null_assign"
      [] src = "copy" -> "copy_assign"
      [] OTHER -> "assign"

\* the first statement of an assignment operator: obj_ = ...
AssignStoreObj(t, src) ==
    /\ err = "none"
    /\ pc[t] = "idle"
    /\ obj_' = [obj_ EXCEPT ![Shared] = srcObj(src)]
    /\ pc' = [pc EXCEPT ![t] = "asg"]
    /\ loc' = [loc EXCEPT ![t] = [NoLoc EXCEPT !.src = src]]
    /\ wrote' = TRUE
    /\ UNCHANGED <<callback_, fpVal, cloN, recvV, alive, bound, last, err,
                   cmp>>

\* the second statement: callback_ = ..., and then the end of the operator
AssignStoreCallback(t) ==
    /\ err = "none"
    /\ pc[t] = "asg"
    /\ callback_' = [callback_ EXCEPT ![Shared] = srcCallback(loc[t].src)]
    /\ pc' = [pc EXCEPT ![t] = "idle"]
    /\ loc' = [loc EXCEPT ![t] = NoLoc]
    /\ FlowOffEnd(srcOp(loc[t].src), Shared, loc[t].src)
    /\ UNCHANGED <<obj_, fpVal, cloN, recvV, alive, bound, cmp, wrote>>

\* std::swap(obj_, rhs.obj_): tmp = obj_; obj_ = rhs.obj_;
SwapObjFirst(t) ==
    /\ err = "none"
    /\ pc[t] = "idle"
    /\ obj_' = [obj_ EXCEPT ![Shared] = obj_[Other]]
    /\ pc' = [pc EXCEPT ![t] = "sw_o"]
    /\ loc' = [loc EXCEPT ![t] = [NoLoc EXCEPT !.tmp = obj_[Shared]]]
    /\ wrote' = TRUE
    /\ UNCHANGED <<callback_, fpVal, cloN, recvV, alive, bound, last, err,
                   cmp>>

\* ... rhs.obj_ = tmp;
SwapObjSecond(t) ==
    /\ err = "none"
    /\ pc[t] = "sw_o"
    /\ obj_' = [obj_ EXCEPT ![Other] = loc[t].tmp]
    /\ pc' = [pc EXCEPT ![t] = "sw_oo"]
    /\ loc' = [loc EXCEPT ![t] = NoLoc]
    /\ UNCHANGED <<callback_, fpVal, cloN, recvV, alive, bound, last, err,
                   cmp, wrote>>

\* std::swap(callback_, rhs.callback_): tmp = callback_; callback_ = rhs.callback_;
SwapCallbackFirst(t) ==
    /\ err = "none"
    /\ pc[t] = "sw_oo"
    /\ callback_' = [callback_ EXCEPT ![Shared] = callback_[Other]]
    /\ pc' = [pc EXCEPT ![t] = "sw_c"]
    /\ loc' = [loc EXCEPT ![t] = [NoLoc EXCEPT !.tmp = callback_[Shared]]]
    /\ UNCHANGED <<obj_, fpVal, cloN, recvV, alive, bound, last, err, cmp,
                   wrote>>

\* ... rhs.callback_ = tmp;
SwapCallbackSecond(t) ==
    /\ err = "none"
    /\ pc[t] = "sw_c"
    /\ callback_' = [callback_ EXCEPT ![Other] = loc[t].tmp]
    /\ pc' = [pc EXCEPT ![t] = "idle"]
    /\ loc' = [loc EXCEPT ![t] = NoLoc]
    /\ last' = Rec("swap", Shared, Other)
    /\ UNCHANGED <<obj_, fpVal, cloN, recvV, alive, bound, err, cmp, wrote>>

\* operator(): callback_(obj_, args...) loads callback_ and obj_; the order
\* of the two loads is the compiler's choice
InvokeLoadFirst(t, field) ==
    /\ err = "none"
    /\ pc[t] = "idle"
    /\ pc' = [pc EXCEPT ![t] = IF field = "obj" THEN "inv_o" ELSE "inv_c"]
    /\ loc' = [loc EXCEPT ![t] =
                 IF field = "obj" THEN [NoLoc EXCEPT !.o = obj_[Shared]]
                 ELSE [NoLoc EXCEPT !.c = callback_[Shared]]]
    /\ UNCHANGED <<obj_, callback_, fpVal, cloN, recvV, alive, bound, last,
                   err, cmp, wrote>>

InvokeLoadSecond(t) ==
    /\ err = "none"
    /\ pc[t] \in {"inv_o", "inv_c"}
    /\ pc' = [pc EXCEPT ![t] = "inv_both"]
    /\ loc' = [loc EXCEPT ![t] =
                 IF pc[t] = "inv_o" THEN [loc[t] EXCEPT !.c = callback_[Shared]]
                 ELSE [loc[t] EXCEPT !.o = obj_[Shared]]]
    /\ UNCHANGED <<obj_, callback_, fpVal, cloN, recvV, alive, bound, last,
                   err, cmp, wrote>>

\* ... and calls the loaded trampoline with the loaded target
InvokeCall(t, x) ==
    /\ err = "none"
    /\ pc[t] = "inv_both"
    /\ LET out == call([obj_ EXCEPT ![Shared] = loc[t].o],
                       [callback_ EXCEPT ![Shared] = loc[t].c],
                       Shared, x, Env, {Shared})
       IN  /\ last' = [Rec("invoke", Shared, "-") EXCEPT !.x = x, !.out = out]
           /\ cloN' = out.n
           /\ recvV' = out.v
           /\ err' = IF out.k = "ok" THEN "none" ELSE out.k
    /\ pc' = [pc EXCEPT ![t] = "idle"]
    /\ loc' = [loc EXCEPT ![t] = NoLoc]
    /\ UNCHANGED <<obj_, callback_, fpVal, alive, bound, cmp, wrote>>

\* mutant: operator bool written with = in place of !=
BoolLoad_assigns(t) ==
    /\ err = "none"
    /\ pc[t] = "idle"
    /\ obj_' = [obj_ EXCEPT ![Shared] = NULL]
    /\ last' = [Rec("bool", Shared, t) EXCEPT !.b = FALSE]
    /\ UNCHANGED <<callback_, fpVal, cloN, recvV, alive, bound, err, cmp, pc,
                   loc, wrote>>

\* operator bool: one load of obj_
BoolLoad(t) ==
    /\ err = "none"
    /\ pc[t] = "idle"
    /\ last' = [Rec("bool", Shared, t) EXCEPT !.b = bool(obj_, Shared)]
    /\ UNCHANGED <<obj_, callback_, fpVal, cloN, recvV, alive, bound, err,
                   cmp, pc, loc, wrote>>

ConcNext ==
    \/ \E t \in Writers, src \in AssignSources : AssignStoreObj(t, src)
    \/ \E t \in Writers : AssignStoreCallback(t)
    \/ \E t \in Writers : SwapObjFirst(t)
    \/ \E t \in Writers : SwapObjSecond(t)
    \/ \E t \in Writers : SwapCallbackFirst(t)
    \/ \E t \in Writers : SwapCallbackSecond(t)
    \/ \E t \in Threads, field \in {"obj", "cb"} : InvokeLoadFirst(t, field)
    \/ \E t \in Threads : InvokeLoadSecond(t)
    \/ \E t \in Threads, x \in Xs : InvokeCall(t, x)
    \/ \E t \in Threads : BoolLoad(t)

SpecConc == InitConc /\ [][ConcNext]_vars

\* the reader t has loaded a target and a trampoline that no binding
\* operation stores together
Torn(t) == pc[t] = "inv_both" /\ ~Consistent(loc[t].o, loc[t].c)

\* a step of operator() or operator bool
ReaderStep ==
    \/ \E t \in Threads : pc[t] # pc'[t] /\ pc'[t] \in {"inv_o", "inv_c", "inv_both"}
    \/ \E t \in Threads : pc[t] = "inv_both" /\ pc'[t] = "idle"
    \/ last'.op = "bool" /\ last' # last

\* C9: an unsynchronised assignment or swap can show a concurrent reader a
\* target and a trampoline of different bindings (the witness is such a
\* state); as long as every thread has only read, the two fields form a
\* pair that one binding stored, no reader has loaded a mixed pair, and no
\* step of operator() or operator bool changes either field.
C9_TornOnlyAfterWrite ==
    /\ [](~wrote =>
            /\ Consistent(obj_[Shared], callback_[Shared])
            /\ \A t \in Threads : ~Torn(t))
    /\ [][ReaderStep => (obj_' = obj_ /\ callback_' = callback_)]_vars

\* C9 witness: while one thread was between the two stores of an assignment,
\* a reader loaded a null field and a non-null field
C9_Witness ==
    \E t, w \in Threads :
        /\ Torn(t)
        /\ pc[w] = "asg"
        /\ (loc[t].o = NULL) # (loc[t].c = NULL)

====
